---------------------------- MODULE Spec2Model ----------------------------
(***************************************************************************)
(* Model of the skill comparison engine: skills_analysis.py and the        *)
(* top_100_* report scripts.  Count tables are sequences of rows           *)
(* [name, count] (a pandas DataFrame keeps its row order).  Every          *)
(* operation of the engine is a pure function of one or two count tables;  *)
(* each is modelled as an operator and applied by one action to inputs     *)
(* drawn by Init.                                                          *)
(*                                                                         *)
(* Numbers.  Counts are integers.  The float columns pct_change,           *)
(* volatility and cum_pct are modelled as exact fractions                  *)
(* [kind, num, den] in lowest terms; kind "na" is a missing value (pd.NA   *)
(* or NaN, both of which pd.isna reports), kind "inf" is +-infinity.       *)
(* Rounding of IEEE doubles is not modelled.                               *)
(***************************************************************************)
EXTENDS Integers, Sequences, FiniteSets, TLC

VARIABLES
    counts_2023, counts_2025,   \* the count tables of the two years
    table, mapping,             \* the table and the similarity mapping of a one-table operation
    top_n,                      \* the cutoff of the last top-N selection
    op,                         \* "load", then the name of the operation that ran
    delta_df,                   \* the table compute_deltas returned
    result,                     \* what the operation returned
    raised                      \* the exception the operation raised, or "none"

vars == <<counts_2023, counts_2025, table, mapping, top_n, op, delta_df, result, raised>>

--------------------------------------------------------------------------
(* Bounds of the model *)

\* rows of the two tables of a comparison, together
MaxRows == 5
\* rows of the table of a coverage computation
MaxLen == 3
\* rows of the table, and entries of the mapping, of a canonicalization
MaxMapRows == 3
MaxMapEntries == 2
\* the cutoffs tried are 0..MaxTopN
MaxTopN == 3
\* rows of the skill list, and of the count file, of one year
MaxSkills == 2

\* names in lexicographic order, the order pandas sorts join and group keys in
NameList == <<"javascript", "js", "python", "sql">>
Names == {NameList[i] : i \in 1..Len(NameList)}
PairNames == {"javascript", "js", "python"}

\* counts of the comparison: against 100 they give -100, -11, -10, 0, +10
\* and +50 percent, against 90 also +11.1, +22.2 and +66.7 percent
Counts2023 == {0, 90, 100}
Counts2025 == {0, 89, 90, 100, 110, 150}
CoverageCounts == {0, 20, 30, 50}
MapCounts == {0, 5, 10}
FileCounts == {50, 100}

--------------------------------------------------------------------------
(* Numbers *)

\* the missing count an outer join leaves for a name absent from one side
NaN == -1

AbsInt(i) == IF i < 0 THEN -i ELSE i

RECURSIVE GCD(_, _)
GCD(a, b) == IF b = 0 THEN a ELSE GCD(b, a % b)

NA == [kind |-> "na", num |-> 0, den |-> 1]
Inf(sign) == [kind |-> "inf", num |-> sign, den |-> 1]

\* the fraction n/d, d > 0, in lowest terms
Frac(n, d) ==
    LET g == GCD(AbsInt(n), d)
    IN  [kind |-> "num", num |-> n \div g, den |-> d \div g]

IsNA(x) == x.kind = "na"

\* float division of two integers: x/0 is NaN for x = 0 and +-inf otherwise
FloatDiv(x, y) ==
    IF y = 0 THEN (IF x = 0 THEN NA ELSE Inf(IF x < 0 THEN -1 ELSE 1))
    ELSE IF y < 0 THEN Frac(-x, -y)
    ELSE Frac(x, y)

\* x * k for an integer k > 0
Scale(x, k) ==
    IF x.kind = "num" THEN Frac(x.num * k, x.den) ELSE x

Abs(x) ==
    IF x.kind = "na" THEN NA
    ELSE IF x.kind = "inf" THEN Inf(1)
    ELSE Frac(AbsInt(x.num), x.den)

\* x > k and x >= k for a number x that is not missing and an integer k
GreaterThan(x, k) ==
    IF x.kind = "inf" THEN x.num > 0 ELSE x.num > k * x.den

AtLeast(x, k) ==
    IF x.kind = "inf" THEN x.num > 0 ELSE x.num >= k * x.den

\* x < y for two numbers that are not missing
Less(x, y) ==
    IF x.kind = "inf" THEN x.num < 0 /\ ~(y.kind = "inf" /\ y.num < 0)
    ELSE IF y.kind = "inf" THEN y.num > 0
    ELSE x.num * y.den < y.num * x.den

--------------------------------------------------------------------------
(* Tables *)

Range(s) == {s[i] : i \in 1..Len(s)}

ColumnNames(df) == {df[i].name : i \in 1..Len(df)}

UniqueNames(df) == \A i, j \in 1..Len(df) : df[i].name = df[j].name => i = j

\* the tables of exactly n rows over the given names and counts
AllTables(names, counts, n) ==
    [1..n -> [name : names, count : counts]]

\* count tables of exactly n rows: the name is a unique key
CountTables(names, counts, n) ==
    LET keys == {ns \in [1..n -> names] : \A i, j \in 1..n : ns[i] = ns[j] => i = j}
    IN  {[i \in 1..n |-> [name |-> ns[i], count |-> cs[i]]] :
            ns \in keys, cs \in [1..n -> counts]}

\* the names of S in lexicographic order
SortedNames(S) ==
    LET In(n) == n \in S IN SelectSeq(NameList, In)

\* the count tables of exactly n rows whose rows are in the order of their
\* names
NameOrderedTables(names, counts, n) ==
    LET keys == {SortedNames(S) : S \in {S \in SUBSET names : Cardinality(S) = n}}
    IN  {[i \in 1..n |-> [name |-> ns[i], count |-> cs[i]]] :
            ns \in keys, cs \in [1..n -> counts]}

RECURSIVE Concat(_)
Concat(ss) == IF ss = <<>> THEN <<>> ELSE Head(ss) \o Concat(Tail(ss))

--------------------------------------------------------------------------
(* skills_analysis.compute_deltas *)

\* pd.merge(df_2023, df_2025, on="name", how="outer"): the rows of one key
MergeKey(df_2023, df_2025, k) ==
    LET HasKey(r) == r.name = k
        L == SelectSeq(df_2023, HasKey)
        R == SelectSeq(df_2025, HasKey)
    IN  IF Len(R) = 0
        THEN [i \in 1..Len(L) |->
                [name |-> k, count_2023 |-> L[i].count, count_2025 |-> NaN]]
        ELSE IF Len(L) = 0
        THEN [j \in 1..Len(R) |->
                [name |-> k, count_2023 |-> NaN, count_2025 |-> R[j].count]]
        ELSE [p \in 1..(Len(L) * Len(R)) |->
                [name |-> k,
                 count_2023 |-> L[((p - 1) \div Len(R)) + 1].count,
                 count_2025 |-> R[((p - 1) % Len(R)) + 1].count]]

\* a left join in place of the outer join: the keys of the first table only
OuterMerge_Left(df_2023, df_2025) ==
    LET keys == SortedNames(ColumnNames(df_2023))
    IN  Concat([i \in 1..Len(keys) |-> MergeKey(df_2023, df_2025, keys[i])])

\* the outer join: the union of the keys, sorted lexicographically
OuterMerge(df_2023, df_2025) ==
    LET keys == SortedNames(ColumnNames(df_2023) \cup ColumnNames(df_2025))
    IN  Concat([i \in 1..Len(keys) |-> MergeKey(df_2023, df_2025, keys[i])])

\* the missing counts left in place
FillNa_Kept(c) == c

\* df.fillna(0)
FillNa(c) == IF c = NaN THEN 0 ELSE c

\* the base with its zeros left in place
Base_ZeroKept(c) == c

\* base = df["count_2023"].replace(0, pd.NA)
Base(c) == IF c = 0 THEN NaN ELSE c

\* (df["delta"] / base) * 100
PctChange(delta, base) ==
    IF base = NaN THEN NA ELSE Scale(FloatDiv(delta, base), 100)

\* the Flat boundary taken as pct > -10
_bucket_StrictFlat(pct) ==
    IF IsNA(pct) THEN "New in 2025"
    ELSE IF GreaterThan(pct, 50) THEN "High growth (>50%)"
    ELSE IF GreaterThan(pct, 10) THEN "Moderate growth (10-50%)"
    ELSE IF GreaterThan(pct, -10) THEN "Flat (+/-10%)"
    ELSE "Decline (>10% decrease)"

_bucket(pct) ==
    IF IsNA(pct) THEN "New in 2025"
    ELSE IF GreaterThan(pct, 50) THEN "High growth (>50%)"
    ELSE IF GreaterThan(pct, 10) THEN "Moderate growth (10-50%)"
    ELSE IF AtLeast(pct, -10) THEN "Flat (+/-10%)"
    ELSE "Decline (>10% decrease)"

DeltaRow(m) ==
    LET c23 == FillNa(m.count_2023)
        c25 == FillNa(m.count_2025)
        delta == c25 - c23
        pct == PctChange(delta, Base(c23))
    IN  [name |-> m.name, count_2023 |-> c23, count_2025 |-> c25,
         delta |-> delta, pct_change |-> pct, volatility |-> Abs(pct),
         growth_bucket |-> _bucket(pct)]

compute_deltas(df_2023, df_2025) ==
    LET df == OuterMerge(df_2023, df_2025)
    IN  [i \in 1..Len(df) |-> DeltaRow(df[i])]

--------------------------------------------------------------------------
(* DataFrame.sort_values and DataFrame.head *)

\* a count as a sort key
CountKey(c) == IF c = NaN THEN NA ELSE Frac(c, 1)

Before(x, y, ascending) == IF ascending THEN Less(x, y) ELSE Less(y, x)

\* the orders of the rows S that respect the keys; rows with equal keys may
\* come in any order: sort_values sorts with kind="quicksort", which is not
\* a stable sort
RECURSIVE Orders(_, _, _)
Orders(keys, S, ascending) ==
    IF S = {} THEN {<<>>}
    ELSE LET first == {i \in S : \A j \in S : ~Before(keys[j], keys[i], ascending)}
         IN  UNION {{<<i>> \o t : t \in Orders(keys, S \ {i}, ascending)} : i \in first}

\* df.sort_values(column, ascending=...), keys[i] the value of the column in
\* row i: the possible results.  Missing keys go last (na_position="last"),
\* in their original order.
SortValues(df, keys, ascending) ==
    LET Missing(i) == IsNA(keys[i])
        rows == [i \in 1..Len(df) |-> i]
        last == SelectSeq(rows, Missing)
        present == {i \in 1..Len(df) : ~IsNA(keys[i])}
    IN  {[k \in 1..Len(df) |-> df[(p \o last)[k]]] : p \in Orders(keys, present, ascending)}

\* a cutoff that keeps one row too many
HeadRows_OneMore(df, n) == SubSeq(df, 1, IF n + 1 < Len(df) THEN n + 1 ELSE Len(df))

\* df.head(n), n >= 0
HeadRows(df, n) == SubSeq(df, 1, IF n < Len(df) THEN n ELSE Len(df))

--------------------------------------------------------------------------
(* skills_analysis.find_new_and_disappeared *)

\* the two filters on each other's column
find_new_and_disappeared_Swapped(df) ==
    LET New(r) == r.count_2025 = 0
        Gone(r) == r.count_2023 = 0
    IN  [new |-> SelectSeq(df, New), disappeared |-> SelectSeq(df, Gone)]

find_new_and_disappeared(df) ==
    LET New(r) == r.count_2023 = 0
        Gone(r) == r.count_2025 = 0
    IN  [new |-> SelectSeq(df, New), disappeared |-> SelectSeq(df, Gone)]

--------------------------------------------------------------------------
(* top_100_growth_buckets.bucket_skills *)

order ==
    <<"High growth (>50%)", "Moderate growth (10-50%)", "Flat (+/-10%)",
      "Decline (>10% decrease)">>

BucketColumns(r) ==
    [name |-> r.name, pct_change |-> r.pct_change,
     count_2023 |-> r.count_2023, count_2025 |-> r.count_2025]

\* every bucket sorted descending, Decline included
BucketTop_AllDescending(deltas, label, n) ==
    LET InBucket(r) == r.growth_bucket = label
        subset == SelectSeq(deltas, InBucket)
        keys == [i \in 1..Len(subset) |-> subset[i].pct_change]
        sorted == SortValues(subset, keys, FALSE)
    IN  {LET top == HeadRows(s, n)
         IN  [i \in 1..Len(top) |-> BucketColumns(top[i])] : s \in sorted}

\* the possible top_n tables of one bucket
BucketTop(deltas, label, n) ==
    LET InBucket(r) == r.growth_bucket = label
        subset == SelectSeq(deltas, InBucket)
        keys == [i \in 1..Len(subset) |-> subset[i].pct_change]
        sorted == SortValues(subset, keys, label = "Decline (>10% decrease)")
    IN  {LET top == HeadRows(s, n)
         IN  [i \in 1..Len(top) |-> BucketColumns(top[i])] : s \in sorted}

\* the possible results: a table for each label of order
bucket_skills(df_2023, df_2025, n) ==
    LET deltas == compute_deltas(df_2023, df_2025)
    IN  {[label \in Range(order) |->
            CASE label = order[1] -> hi
              [] label = order[2] -> mo
              [] label = order[3] -> fl
              [] OTHER -> de] :
            hi \in BucketTop(deltas, order[1], n),
            mo \in BucketTop(deltas, order[2], n),
            fl \in BucketTop(deltas, order[3], n),
            de \in BucketTop(deltas, order[4], n)}

--------------------------------------------------------------------------
(* top_100_gone_skills.get_gone_skills, top_100_new_skills.get_new_skills *)

get_gone_skills(df_2023, df_2025, n) ==
    LET c2023 == [i \in 1..Len(df_2023) |->
                    [name |-> df_2023[i].name, count_2023 |-> df_2023[i].count]]
        Absent(r) == r.name \notin ColumnNames(df_2025)
        gone == SelectSeq(c2023, Absent)
        keys == [i \in 1..Len(gone) |-> CountKey(gone[i].count_2023)]
    IN  {HeadRows(s, n) : s \in SortValues(gone, keys, FALSE)}

get_new_skills(df_2023, df_2025, n) ==
    LET c2025 == [i \in 1..Len(df_2025) |->
                    [name |-> df_2025[i].name, count_2025 |-> df_2025[i].count]]
        Absent(r) == r.name \notin ColumnNames(df_2023)
        new == SelectSeq(c2025, Absent)
        keys == [i \in 1..Len(new) |-> CountKey(new[i].count_2025)]
    IN  {HeadRows(s, n) : s \in SortValues(new, keys, FALSE)}

--------------------------------------------------------------------------
(* top_100_volatile_skills.get_volatile_skills *)

\* deltas.dropna(subset=["pct_change"])
DropNa(deltas) ==
    LET Defined(r) == ~IsNA(r.pct_change) IN SelectSeq(deltas, Defined)

VolatileColumns(r) ==
    [name |-> r.name, volatility |-> r.volatility, pct_change |-> r.pct_change]

get_volatile_skills(df_2023, df_2025, n) ==
    LET deltas == compute_deltas(df_2023, df_2025)
        shared == DropNa(deltas)
        keys == [i \in 1..Len(shared) |-> shared[i].volatility]
    IN  {LET top == HeadRows(s, n)
         IN  [i \in 1..Len(top) |-> VolatileColumns(top[i])] :
            s \in SortValues(shared, keys, FALSE)}

--------------------------------------------------------------------------
(* skills_analysis.plot_counts: the rows of the "Most volatile skills" chart *)

PLOT_TOP == 10

plot_counts_volatile(df_2023, df_2025) ==
    LET deltas == compute_deltas(df_2023, df_2025)
        keys == [i \in 1..Len(deltas) |-> deltas[i].volatility]
    IN  {HeadRows(s, PLOT_TOP) : s \in SortValues(deltas, keys, FALSE)}

--------------------------------------------------------------------------
(* skills_analysis.compute_cumulative_coverage *)

\* Series.sum() and Series.cumsum() skip missing values
RECURSIVE SumCounts(_, _)
SumCounts(t, i) ==
    IF i = 0 THEN 0 ELSE SumCounts(t, i - 1) + FillNa(t[i].count)

\* df["count"].cumsum() / total * 100 in row i; cumsum leaves a missing
\* count missing
CumPct(t, i, total) ==
    IF t[i].count = NaN THEN NA ELSE Scale(FloatDiv(SumCounts(t, i), total), 100)

\* the running sum taken in the order of the input, without the sort
compute_cumulative_coverage_Unsorted(t) ==
    {LET total == SumCounts(t, Len(t))
     IN  [i \in 1..Len(t) |->
            [name |-> t[i].name, count |-> t[i].count,
             rank |-> i, cum_pct |-> CumPct(t, i, total)]]}

\* the possible results
compute_cumulative_coverage(t) ==
    LET keys == [i \in 1..Len(t) |-> CountKey(t[i].count)]
    IN  {LET total == SumCounts(df_sorted, Len(df_sorted))
         IN  [i \in 1..Len(df_sorted) |->
                [name |-> df_sorted[i].name, count |-> df_sorted[i].count,
                 rank |-> i, cum_pct |-> CumPct(df_sorted, i, total)]] :
            df_sorted \in SortValues(t, keys, FALSE)}

--------------------------------------------------------------------------
(* skills_analysis.apply_similarity_mapping *)

\* the lookup followed a second step, through a chain a -> b, b -> c
Canonical_Transitive(m, name) ==
    IF name \in DOMAIN m
    THEN (IF m[name] \in DOMAIN m THEN m[m[name]] ELSE m[name])
    ELSE name

\* df["name"].map(mapping).fillna(df["name"])
Canonical(m, name) == IF name \in DOMAIN m THEN m[name] ELSE name

\* groupby("_canonical")["count"].sum() of one group
GroupSum(t, m, key) ==
    LET InGroup(r) == Canonical(m, r.name) = key
        group == SelectSeq(t, InGroup)
    IN  SumCounts(group, Len(group))

apply_similarity_mapping(t, m) ==
    IF DOMAIN m = {} THEN t
    ELSE LET keys == SortedNames({Canonical(m, t[i].name) : i \in 1..Len(t)})
         IN  [i \in 1..Len(keys) |->
                [name |-> keys[i], count |-> GroupSum(t, m, keys[i])]]

--------------------------------------------------------------------------
(* The comparison programs: two count tables are loaded, one operation runs. *)
(* The tables are drawn with their rows in the order of their names: every  *)
(* operation on two tables joins on the name or sorts its rows, so that the *)
(* results the model allows do not depend on the order of the input rows.   *)

NoMapping == <<>>

Tables2023 == [n \in 0..MaxRows |-> NameOrderedTables(PairNames, Counts2023, n)]
Tables2025 == [n \in 0..MaxRows |-> NameOrderedTables(PairNames, Counts2025, n)]

Init ==
    /\ \E n23 \in 0..MaxRows : \E n25 \in 0..(MaxRows - n23) :
          /\ counts_2023 \in Tables2023[n23]
          /\ counts_2025 \in Tables2025[n25]
    /\ table = <<>>
    /\ mapping = NoMapping
    /\ top_n = 0
    /\ op = "load"
    /\ delta_df = <<>>
    /\ result = <<>>
    /\ raised = "none"

ComputeDeltas ==
    /\ op = "load"
    /\ op' = "compute_deltas"
    /\ delta_df' = compute_deltas(counts_2023, counts_2025)
    /\ result' = delta_df'
    /\ UNCHANGED <<counts_2023, counts_2025, table, mapping, top_n, raised>>

\* skills_analysis main: the summary of new and disappeared skills is taken
\* from the delta table just computed
FindNewAndDisappeared ==
    /\ op = "compute_deltas"
    /\ op' = "find_new_and_disappeared"
    /\ result' = find_new_and_disappeared(delta_df)
    /\ UNCHANGED <<counts_2023, counts_2025, table, mapping, top_n, delta_df, raised>>

BucketSkills ==
    /\ op = "load"
    /\ \E n \in 0..MaxTopN :
          /\ top_n' = n
          /\ result' \in bucket_skills(counts_2023, counts_2025, n)
    /\ op' = "bucket_skills"
    /\ UNCHANGED <<counts_2023, counts_2025, table, mapping, delta_df, raised>>

GetGoneSkills ==
    /\ op = "load"
    /\ \E n \in 0..MaxTopN :
          /\ top_n' = n
          /\ result' \in get_gone_skills(counts_2023, counts_2025, n)
    /\ op' = "get_gone_skills"
    /\ UNCHANGED <<counts_2023, counts_2025, table, mapping, delta_df, raised>>

GetNewSkills ==
    /\ op = "load"
    /\ \E n \in 0..MaxTopN :
          /\ top_n' = n
          /\ result' \in get_new_skills(counts_2023, counts_2025, n)
    /\ op' = "get_new_skills"
    /\ UNCHANGED <<counts_2023, counts_2025, table, mapping, delta_df, raised>>

GetVolatileSkills ==
    /\ op = "load"
    /\ \E n \in 0..MaxTopN :
          /\ top_n' = n
          /\ result' \in get_volatile_skills(counts_2023, counts_2025, n)
    /\ op' = "get_volatile_skills"
    /\ UNCHANGED <<counts_2023, counts_2025, table, mapping, delta_df, raised>>

PlotCounts ==
    /\ op = "load"
    /\ op' = "plot_counts"
    /\ delta_df' = compute_deltas(counts_2023, counts_2025)
    /\ result' \in plot_counts_volatile(counts_2023, counts_2025)
    /\ UNCHANGED <<counts_2023, counts_2025, table, mapping, top_n, raised>>

Next ==
    \/ ComputeDeltas
    \/ FindNewAndDisappeared
    \/ BucketSkills
    \/ GetGoneSkills
    \/ GetNewSkills
    \/ GetVolatileSkills
    \/ PlotCounts

Spec == Init /\ [][Next]_vars

--------------------------------------------------------------------------
(* Coverage of one count table *)

CoverageTables == [n \in 0..MaxLen |-> CountTables(Names, CoverageCounts, n)]

InitCoverage ==
    /\ counts_2023 = <<>>
    /\ counts_2025 = <<>>
    /\ \E n \in 0..MaxLen : table \in CoverageTables[n]
    /\ mapping = NoMapping
    /\ top_n = 0
    /\ op = "load"
    /\ delta_df = <<>>
    /\ result = <<>>
    /\ raised = "none"

\* the function has no raise statement and pandas divides by zero silently
ComputeCumulativeCoverage ==
    /\ op = "load"
    /\ op' = "compute_cumulative_coverage"
    /\ result' \in compute_cumulative_coverage(table)
    /\ raised' = "none"
    /\ UNCHANGED <<counts_2023, counts_2025, table, mapping, top_n, delta_df>>

NextCoverage ==
    \/ ComputeCumulativeCoverage

SpecCoverage == InitCoverage /\ [][NextCoverage]_vars

--------------------------------------------------------------------------
(* Canonicalization of one table, whose names may repeat *)

MapTables == [n \in 0..MaxMapRows |-> AllTables(PairNames, MapCounts, n)]

Mappings ==
    UNION {[D -> PairNames] : D \in {D \in SUBSET PairNames : Cardinality(D) <= MaxMapEntries}}

InitMapping ==
    /\ counts_2023 = <<>>
    /\ counts_2025 = <<>>
    /\ \E n \in 0..MaxMapRows : table \in MapTables[n]
    /\ mapping \in Mappings
    /\ top_n = 0
    /\ op = "load"
    /\ delta_df = <<>>
    /\ result = <<>>
    /\ raised = "none"

ApplySimilarityMapping ==
    /\ op = "load"
    /\ op' = "apply_similarity_mapping"
    /\ result' = apply_similarity_mapping(table, mapping)
    /\ UNCHANGED <<counts_2023, counts_2025, table, mapping, top_n, delta_df, raised>>

NextMapping ==
    \/ ApplySimilarityMapping

SpecMapping == InitMapping /\ [][NextMapping]_vars


--------------------------------------------------------------------------
(* skills_analysis main: the skill list of each year is left-joined onto   *)
(* its count file, and a skill the count file lacks gets a missing count   *)

\* exp_df.merge(count_df, on="name", how="left"): the rows of one skill
MergeLeftRow(count_df, name) ==
    LET HasKey(r) == r.name = name
        R == SelectSeq(count_df, HasKey)
    IN  IF Len(R) = 0 THEN <<[name |-> name, count |-> NaN]>>
        ELSE [j \in 1..Len(R) |-> [name |-> name, count |-> R[j].count]]

merge_counts(exp_df, count_df) ==
    Concat([i \in 1..Len(exp_df) |-> MergeLeftRow(count_df, exp_df[i].name)])

\* skill lists: the names do not repeat
SkillLists ==
    UNION {{[i \in 1..n |-> [name |-> ns[i]]] :
                ns \in {ns \in [1..n -> PairNames] :
                            \A i, j \in 1..n : ns[i] = ns[j] => i = j}} :
           n \in 0..MaxSkills}

CountFiles == UNION {CountTables(PairNames, FileCounts, n) : n \in 0..MaxSkills}

\* the tables merge_counts can return
MergedCounts == {merge_counts(e, c) : e \in SkillLists, c \in CountFiles}

InitMissing ==
    /\ counts_2023 \in MergedCounts
    /\ counts_2025 \in MergedCounts
    /\ table = <<>>
    /\ mapping = NoMapping
    /\ top_n = 0
    /\ op = "load"
    /\ delta_df = <<>>
    /\ result = <<>>
    /\ raised = "none"

\* plot_counts: the coverage chart of one of the two years
PlotCoverage ==
    /\ op = "load"
    /\ \E t \in {counts_2023, counts_2025} :
          /\ table' = t
          /\ result' \in compute_cumulative_coverage(t)
    /\ op' = "compute_cumulative_coverage"
    /\ raised' = "none"
    /\ UNCHANGED <<counts_2023, counts_2025, mapping, top_n, delta_df>>

NextMissing ==
    \/ ComputeDeltas
    \/ PlotCoverage

SpecMissing == InitMissing /\ [][NextMissing]_vars

--------------------------------------------------------------------------
(* Properties *)

\* the count of a name in a count table, 0 for a name the table lacks
CountOf(t, name) ==
    IF \E i \in 1..Len(t) : t[i].name = name
    THEN t[CHOOSE i \in 1..Len(t) : t[i].name = name].count
    ELSE 0

\* C1: compute_deltas(A, B) holds exactly the union of the names of A and B,
\* each name once: none dropped, none duplicated, none from elsewhere.
C1_UnionOfNames ==
    op = "compute_deltas" =>
        /\ ColumnNames(result) = ColumnNames(counts_2023) \cup ColumnNames(counts_2025)
        /\ UniqueNames(result)
        /\ Len(result) = Cardinality(ColumnNames(counts_2023) \cup ColumnNames(counts_2025))

\* a join with a name on the first side only, one on the second side only
\* and one on both
C1_Witness ==
    /\ op = "compute_deltas"
    /\ ColumnNames(counts_2023) \ ColumnNames(counts_2025) # {}
    /\ ColumnNames(counts_2025) \ ColumnNames(counts_2023) # {}
    /\ ColumnNames(counts_2023) \cap ColumnNames(counts_2025) # {}
    /\ Len(result) = 3

\* C2: in every record of compute_deltas, with an absent count taken as 0,
\* delta = count_b - count_a; pct_change = (count_b - count_a) / count_a * 100
\* when count_a # 0, and is missing (not infinite, not zero) when count_a = 0.
C2_DeltaAndPctChange ==
    op = "compute_deltas" =>
        \A i \in 1..Len(result) :
            LET r == result[i]
                a == CountOf(counts_2023, r.name)
                b == CountOf(counts_2025, r.name)
            IN  /\ r.count_2023 = a
                /\ r.count_2025 = b
                /\ r.delta = b - a
                /\ a # 0 => /\ r.pct_change.kind = "num"
                            /\ r.pct_change.den > 0
                            /\ r.pct_change.num * a = (b - a) * 100 * r.pct_change.den
                /\ a = 0 => r.pct_change.kind = "na"

\* a record with a zero base and a positive count_b, beside one with a
\* non-zero base that changed
C2_Witness ==
    /\ op = "compute_deltas"
    /\ \E i, j \in 1..Len(result) :
          /\ result[i].count_2023 = 0 /\ result[i].count_2025 > 0
          /\ result[i].pct_change = NA
          /\ result[j].count_2023 = 90 /\ result[j].count_2025 = 100
          /\ result[j].pct_change = [kind |-> "num", num |-> 100, den |-> 9]

High == "High growth (>50%)"
Moderate == "Moderate growth (10-50%)"
Flat == "Flat (+/-10%)"
Decline == "Decline (>10% decrease)"
New == "New in 2025"

\* the bucket rule stated on the two counts: for a > 0, pct > k is
\* 100 * (b - a) > k * a
ExpectedBucket(a, b) ==
    IF a = 0 THEN New
    ELSE IF 100 * (b - a) > 50 * a THEN High
    ELSE IF 100 * (b - a) > 10 * a THEN Moderate
    ELSE IF 100 * (b - a) >= -10 * a THEN Flat
    ELSE Decline

\* C3: the growth bucket is the first match of: undefined (count_a = 0) -> New,
\* pct > 50 -> High, pct > 10 -> Moderate, pct >= -10 -> Flat, else Decline;
\* one of the five labels for every record; 100 -> 90 is Flat, 100 -> 89 is
\* Decline, exactly 50 is Moderate and exactly 10 is Flat.
C3_GrowthBucket ==
    op = "compute_deltas" =>
        \A i \in 1..Len(result) :
            LET r == result[i]
            IN  /\ r.growth_bucket \in {New, High, Moderate, Flat, Decline}
                /\ r.growth_bucket = ExpectedBucket(r.count_2023, r.count_2025)
                /\ (r.growth_bucket = New) = IsNA(r.pct_change)
                /\ (r.count_2023 = 100 /\ r.count_2025 = 90) => r.growth_bucket = Flat
                /\ (r.count_2023 = 100 /\ r.count_2025 = 89) => r.growth_bucket = Decline
                /\ r.pct_change = Frac(-10, 1) => r.growth_bucket = Flat
                /\ r.pct_change = Frac(50, 1) => r.growth_bucket = Moderate
                /\ r.pct_change = Frac(10, 1) => r.growth_bucket = Flat

\* the two sides of the Flat/Decline boundary in one table
C3_Witness ==
    /\ op = "compute_deltas"
    /\ \E i, j \in 1..Len(result) :
          /\ result[i].count_2023 = 100 /\ result[i].count_2025 = 90
          /\ result[i].pct_change = Frac(-10, 1) /\ result[i].growth_bucket = Flat
          /\ result[j].count_2023 = 100 /\ result[j].count_2025 = 89
          /\ result[j].pct_change = Frac(-11, 1) /\ result[j].growth_bucket = Decline

\* C4: compute_cumulative_coverage on a table of zero total count (empty, or
\* all counts 0) raises an error instead of returning records.
C4_ZeroTotalRaises ==
    (op = "compute_cumulative_coverage" /\ SumCounts(table, Len(table)) = 0) =>
        raised # "none"

\* what the code returns for such a table: every cum_pct missing
C4_ZeroTotalReturnsMissing ==
    (op = "compute_cumulative_coverage" /\ SumCounts(table, Len(table)) = 0) =>
        /\ raised = "none"
        /\ Len(result) = Len(table)
        /\ \A i \in 1..Len(result) : IsNA(result[i].cum_pct)

\* the sum of the counts of the first i rows of a coverage result
RECURSIVE RunningSum(_, _)
RunningSum(cov, i) == IF i = 0 THEN 0 ELSE RunningSum(cov, i - 1) + cov[i].count

\* C5: for a table of positive total count, compute_cumulative_coverage
\* returns the same records by count descending, rank = 1..N in that order,
\* cum_pct = (sum of the counts of ranks 1..rank) / total * 100; cum_pct is
\* non-decreasing and is exactly 100 at the last rank.
C5_CumulativeCoverage ==
    (op = "compute_cumulative_coverage" /\ SumCounts(table, Len(table)) > 0) =>
        LET N == Len(table)
            total == RunningSum(result, Len(result))
        IN  /\ raised = "none"
            /\ Len(result) = N
            /\ {[name |-> result[i].name, count |-> result[i].count] : i \in 1..Len(result)}
                 = Range(table)
            /\ \A i \in 1..Len(result) :
                  /\ result[i].rank = i
                  /\ result[i].cum_pct.kind = "num"
                  /\ result[i].cum_pct.den > 0
                  /\ result[i].cum_pct.num * total
                       = 100 * RunningSum(result, i) * result[i].cum_pct.den
            /\ \A i \in 1..(Len(result) - 1) :
                  /\ result[i].count >= result[i + 1].count
                  /\ ~Less(result[i + 1].cum_pct, result[i].cum_pct)
            /\ result[Len(result)].cum_pct = [kind |-> "num", num |-> 100, den |-> 1]

\* the table [(a, 50), (b, 30), (c, 20)] gives ranks 1, 2, 3 and 50, 80, 100
C5_Witness ==
    /\ op = "compute_cumulative_coverage"
    /\ Len(table) = 3
    /\ <<table[1].count, table[2].count, table[3].count>> = <<50, 30, 20>>
    /\ <<result[1].rank, result[2].rank, result[3].rank>> = <<1, 2, 3>>
    /\ <<result[1].cum_pct, result[2].cum_pct, result[3].cum_pct>>
         = <<Frac(50, 1), Frac(80, 1), Frac(100, 1)>>

\* C6: a record with undefined volatility (count_a = 0) is in no "most
\* volatile" ranking: not in the output of get_volatile_skills, not in the
\* top-10 selection of plot_counts.
C6_UndefinedVolatilityExcluded ==
    op \in {"get_volatile_skills", "plot_counts"} =>
        \A i \in 1..Len(result) : ~IsNA(result[i].volatility)

\* the part of C6 the code keeps: get_volatile_skills drops the records
C6_GetVolatileExcludes ==
    op = "get_volatile_skills" =>
        \A i \in 1..Len(result) :
            /\ ~IsNA(result[i].volatility)
            /\ CountOf(counts_2023, result[i].name) # 0

\* the single-step lookup of a name
Resolve(name) == IF name \in DOMAIN mapping THEN mapping[name] ELSE name

\* the sum of the counts of the rows of t[1..i] whose name resolves to key
RECURSIVE ResolvedSum(_, _, _)
ResolvedSum(t, i, key) ==
    IF i = 0 THEN 0
    ELSE ResolvedSum(t, i - 1, key) + (IF Resolve(t[i].name) = key THEN t[i].count ELSE 0)

\* C7: with a non-empty mapping, apply_similarity_mapping resolves each name
\* in one step (no chains followed) and returns one record per canonical
\* name, its count the sum of the counts resolving to it; unmapped names
\* pass through and the total is kept.  With an empty mapping the table is
\* returned unchanged; an empty table gives an empty table.
C7_SimilarityMapping ==
    op = "apply_similarity_mapping" =>
        /\ DOMAIN mapping # {} =>
              /\ ColumnNames(result) = {Resolve(table[i].name) : i \in 1..Len(table)}
              /\ UniqueNames(result)
              /\ \A i \in 1..Len(result) :
                    result[i].count = ResolvedSum(table, Len(table), result[i].name)
              /\ \A i \in 1..Len(table) :
                    table[i].name \notin DOMAIN mapping => table[i].name \in ColumnNames(result)
              /\ SumCounts(result, Len(result)) = SumCounts(table, Len(table))
        /\ DOMAIN mapping = {} => result = table
        /\ table = <<>> => result = <<>>

\* {js: javascript} on [(js, 10), (javascript, 5)] gives [(javascript, 15)]
C7_Witness ==
    /\ op = "apply_similarity_mapping"
    /\ DOMAIN mapping = {"js"} /\ mapping["js"] = "javascript"
    /\ table = <<[name |-> "js", count |-> 10], [name |-> "javascript", count |-> 5]>>
    /\ result = <<[name |-> "javascript", count |-> 15]>>

PositiveCounts(t) == \A i \in 1..Len(t) : t[i].count > 0

\* C8: find_new_and_disappeared(merged) returns as new exactly the records
\* with count_a = 0 and as disappeared exactly those with count_b = 0; for
\* tables of positive counts these are the names absent from A and the
\* names absent from B, and the two are disjoint.
C8_NewAndDisappeared ==
    op = "find_new_and_disappeared" =>
        /\ Range(result.new) = {r \in Range(delta_df) : r.count_2023 = 0}
        /\ Range(result.disappeared) = {r \in Range(delta_df) : r.count_2025 = 0}
        /\ UniqueNames(result.new) /\ UniqueNames(result.disappeared)
        /\ (PositiveCounts(counts_2023) /\ PositiveCounts(counts_2025)) =>
              /\ ColumnNames(result.new)
                   = ColumnNames(counts_2025) \ ColumnNames(counts_2023)
              /\ ColumnNames(result.disappeared)
                   = ColumnNames(counts_2023) \ ColumnNames(counts_2025)
              /\ ColumnNames(result.new) \cap ColumnNames(result.disappeared) = {}

\* tables of positive counts with a new name, a disappeared name and a
\* name of both years
C8_Witness ==
    /\ op = "find_new_and_disappeared"
    /\ PositiveCounts(counts_2023) /\ PositiveCounts(counts_2025)
    /\ Len(result.new) = 1 /\ Len(result.disappeared) = 1
    /\ Len(delta_df) = 3

\* C9: a top-N selector returns at most N rows and no row whose membership
\* condition is false: a row of bucket L has growth bucket L (so count_a # 0),
\* a row of get_gone_skills is in the first table and not the second, a row
\* of get_new_skills is in the second and not the first.
C9_TopNSelectors ==
    /\ op = "bucket_skills" =>
          \A label \in DOMAIN result :
              /\ Len(result[label]) <= top_n
              /\ \A i \in 1..Len(result[label]) :
                    LET r == result[label][i]
                    IN  /\ r.count_2023 = CountOf(counts_2023, r.name)
                        /\ r.count_2025 = CountOf(counts_2025, r.name)
                        /\ r.name \in ColumnNames(counts_2023) \cup ColumnNames(counts_2025)
                        /\ ExpectedBucket(r.count_2023, r.count_2025) = label
                        /\ r.count_2023 # 0
    /\ op = "get_gone_skills" =>
          /\ Len(result) <= top_n
          /\ \A i \in 1..Len(result) :
                /\ result[i].name \in ColumnNames(counts_2023) \ ColumnNames(counts_2025)
                /\ result[i].count_2023 = CountOf(counts_2023, result[i].name)
    /\ op = "get_new_skills" =>
          /\ Len(result) <= top_n
          /\ \A i \in 1..Len(result) :
                /\ result[i].name \in ColumnNames(counts_2025) \ ColumnNames(counts_2023)
                /\ result[i].count_2025 = CountOf(counts_2025, result[i].name)
    /\ op = "get_volatile_skills" =>
          Len(result) <= top_n

\* a bucket of two records cut to one, beside a record of bucket New
C9_Witness ==
    /\ op = "bucket_skills"
    /\ top_n = 1
    /\ \E name \in ColumnNames(counts_2025) : CountOf(counts_2023, name) = 0
    /\ \E label \in DOMAIN result :
          /\ Len(result[label]) = 1
          /\ Cardinality({name \in ColumnNames(counts_2023) :
                ExpectedBucket(CountOf(counts_2023, name), CountOf(counts_2025, name))
                    = label}) = 2

\* the records of a bucket in a merged table
BucketOf(deltas, label) == {r \in Range(deltas) : r.growth_bucket = label}

\* r ranks strictly ahead of s in the sort direction of the bucket
Ahead(label, r, s) ==
    IF label = Decline THEN Less(r.pct_change, s.pct_change)
    ELSE Less(s.pct_change, r.pct_change)

\* C10: bucket_skills returns an entry for exactly the four labels High,
\* Moderate, Flat and Decline; Decline is ordered by pct_change ascending,
\* the others descending; each entry has min(n, bucket size) rows and no
\* record left out ranks strictly ahead of a record that is included.
C10_BucketTopN ==
    op = "bucket_skills" =>
        LET deltas == compute_deltas(counts_2023, counts_2025) IN
        /\ DOMAIN result = {High, Moderate, Flat, Decline}
        /\ \A label \in DOMAIN result :
              LET entry == result[label]
                  bucket == BucketOf(deltas, label)
                  size == Cardinality(bucket)
              IN  /\ Len(entry) = (IF top_n < size THEN top_n ELSE size)
                  /\ UniqueNames(entry)
                  /\ \A i \in 1..Len(entry) :
                        \E r \in bucket :
                            r.name = entry[i].name /\ r.pct_change = entry[i].pct_change
                  /\ \A i \in 1..(Len(entry) - 1) : ~Ahead(label, entry[i + 1], entry[i])
                  /\ \A r \in bucket :
                        r.name \notin ColumnNames(entry) =>
                            \A i \in 1..Len(entry) : ~Ahead(label, r, entry[i])

\* two decliners of different pct_change cut to the one that fell most
C10_Witness ==
    /\ op = "bucket_skills"
    /\ top_n = 1
    /\ \E r, s \in BucketOf(compute_deltas(counts_2023, counts_2025), Decline) :
          /\ Less(r.pct_change, s.pct_change)
          /\ result[Decline] = <<BucketColumns(r)>>
          /\ s.name \notin ColumnNames(result[Decline])

\* the row of a count table that holds a name
RowOf(t, name) == CHOOSE i \in 1..Len(t) : t[i].name = name

\* the rows of sel, a selection from the count table t sorted by the column
\* col, keep the input order of t among equal counts, and no row of t left
\* out (of the names in cand) ties with a selected row that follows it in t
KeepsInputOrder(sel, col, t, cand) ==
    /\ \A i, j \in 1..Len(sel) :
          (i < j /\ sel[i][col] = sel[j][col]) =>
              RowOf(t, sel[i].name) < RowOf(t, sel[j].name)
    /\ \A k \in 1..Len(t) :
          (t[k].name \in cand /\ t[k].name \notin ColumnNames(sel)) =>
              \A i \in 1..Len(sel) :
                  sel[i][col] = t[k].count => RowOf(t, sel[i].name) < k

\* C11: the descending sorts of get_gone_skills, get_new_skills and
\* compute_cumulative_coverage are stable: records of equal count come out
\* in their input order, so the rows kept after the cut to N, and the ranks
\* of tied records, are determined by the input order.
C11_StableSorts ==
    /\ op = "get_gone_skills" =>
          KeepsInputOrder(result, "count_2023", counts_2023,
                          ColumnNames(counts_2023) \ ColumnNames(counts_2025))
    /\ op = "get_new_skills" =>
          KeepsInputOrder(result, "count_2025", counts_2025,
                          ColumnNames(counts_2025) \ ColumnNames(counts_2023))
    /\ op = "compute_cumulative_coverage" =>
          KeepsInputOrder(result, "count", table, ColumnNames(table))

\* C12: a missing count (a skill the left join of merge_counts left
\* unmatched) is treated as 0 and never reaches an output: compute_deltas
\* reports count 0 for it on that side, and compute_cumulative_coverage
\* (here on a table of positive total) reports a defined count and a defined
\* cum_pct for it and for every other record.
C12_MissingCountAsZero ==
    /\ op = "compute_deltas" =>
          \A i \in 1..Len(result) :
              /\ result[i].count_2023 # NaN /\ result[i].count_2025 # NaN
              /\ (\E k \in 1..Len(counts_2023) :
                      counts_2023[k].name = result[i].name /\ counts_2023[k].count = NaN)
                    => result[i].count_2023 = 0
              /\ (\E k \in 1..Len(counts_2025) :
                      counts_2025[k].name = result[i].name /\ counts_2025[k].count = NaN)
                    => result[i].count_2025 = 0
    /\ (op = "compute_cumulative_coverage" /\ SumCounts(table, Len(table)) > 0) =>
          \A i \in 1..Len(result) :
              /\ result[i].count # NaN
              /\ ~IsNA(result[i].cum_pct)

\* the part of C12 the code keeps: compute_deltas fills a missing count with 0
C12_DeltasFillMissing ==
    op = "compute_deltas" =>
        \A i \in 1..Len(result) :
            /\ result[i].count_2023 = FillNa(CountOf(counts_2023, result[i].name))
            /\ result[i].count_2025 = FillNa(CountOf(counts_2025, result[i].name))
            /\ result[i].delta = result[i].count_2025 - result[i].count_2023

\* the cutoff is at least as large as both tables
CutoffCoversTables == top_n >= Len(counts_2023) /\ top_n >= Len(counts_2025)

\* a table carries a record of count 0
HasZeroCount == ~(PositiveCounts(counts_2023) /\ PositiveCounts(counts_2025))

\* C13: for tables of unique names and positive counts and a cutoff at least
\* as large as the tables, the names get_new_skills returns (name not in A)
\* are the names of the new set of find_new_and_disappeared(compute_deltas(A, B))
\* (count_a = 0), and the names get_gone_skills returns are those of the
\* disappeared set; the views differ only when a table has a zero count.
C13_ViewsAgree ==
    LET views == find_new_and_disappeared(compute_deltas(counts_2023, counts_2025))
    IN  /\ (op = "get_new_skills" /\ CutoffCoversTables) =>
              /\ ~HasZeroCount => ColumnNames(result) = ColumnNames(views.new)
              /\ ColumnNames(result) # ColumnNames(views.new) => HasZeroCount
        /\ (op = "get_gone_skills" /\ CutoffCoversTables) =>
              /\ ~HasZeroCount => ColumnNames(result) = ColumnNames(views.disappeared)
              /\ ColumnNames(result) # ColumnNames(views.disappeared) => HasZeroCount

\* tables of positive counts with two new names, a disappeared name and a
\* cutoff that covers them
C13_Witness ==
    /\ op = "get_new_skills"
    /\ CutoffCoversTables
    /\ ~HasZeroCount
    /\ Len(result) = 2
    /\ ColumnNames(counts_2023) \ ColumnNames(counts_2025) # {}
    /\ ColumnNames(result)
         = ColumnNames(find_new_and_disappeared(
                           compute_deltas(counts_2023, counts_2025)).new)

\* with a zero count the views do differ: a name of both years whose 2023
\* count is 0 is in the new set and not in the output of get_new_skills
C13_ViewsDifferOnZero ==
    /\ op = "get_new_skills"
    /\ CutoffCoversTables
    /\ HasZeroCount
    /\ ColumnNames(result)
         # ColumnNames(find_new_and_disappeared(
                           compute_deltas(counts_2023, counts_2025)).new)

==========================================================================
